---- MODULE Spec2Model ----
(***************************************************************************)
(* The request pipeline of the task API: route composition, the           *)
(* authentication and authorization guards, the logging wrapper and the   *)
(* handlers behind them, in the two deployment variants:                  *)
(*   "local"    self-issued HS256 tokens, identity resolved from the      *)
(*              users table (apps/backend routes.rs + middleware.rs,      *)
(*              apps/app1 handlers);                                       *)
(*   "provider" tokens verified by KeycloakAuthLayer (gitops/app-source   *)
(*              routes.rs, apps/backend handlers/user.rs, task.rs).       *)
(* Text is a sequence of one-character strings; a compact JWT is one      *)
(* opaque symbol of such a text.                                          *)
(* Spec is the application as main serves it.  GuardSpec, IdemSpec,       *)
(* RoleSpec and LogSpec run one part of it on its own: admin_guard, the   *)
(* users query of auth_guard under a probe, Role::from, and               *)
(* logging_middleware around an arbitrary inner service.  PairSpec keeps   *)
(* two requests in flight together, TaskSpec starts from tasks tables of  *)
(* several owners, PublicSpec serves clients that register, log in and    *)
(* present the tokens they were handed.                                   *)
(***************************************************************************)
EXTENDS Integers, Sequences, FiniteSets, TLC

\* ------------------------------------------------------------- bounds
MaxReq == 1          \* request tasks in flight at once
MaxUuid == 2         \* the uuids that occur: 1..MaxUuid
MaxTasks == 1        \* tasks create_task may insert in one run
MaxRid == 2          \* the correlation ids that occur: 1..MaxRid
MaxInstant == 3      \* the clock takes the instants 0, ClockStep, .., MaxInstant*ClockStep
ClockStep == 30      \* seconds between two modelled instants
MaxRoleLen == 5      \* role names tried: every text of at most this length

\* ---------------------------------------------------- program constants
Leeway == 60         \* Validation::default(): leeway in seconds
TokenLifetime == 86400   \* chrono::Duration::hours(24), in seconds

None == [none |-> TRUE]

ReqIds == 1..MaxReq
UuidSpace == 1..MaxUuid
Instants == {k * ClockStep : k \in 0..MaxInstant}

\* ------------------------------------------------------------ text
BearerPrefix == <<"B", "e", "a", "r", "e", "r", " ">>

UpperLetters ==
    <<"A", "B", "C", "D", "E", "F", "G", "H", "I", "J", "K", "L", "M",
      "N", "O", "P", "Q", "R", "S", "T", "U", "V", "W", "X", "Y", "Z">>
LowerLetters ==
    <<"a", "b", "c", "d", "e", "f", "g", "h", "i", "j", "k", "l", "m",
      "n", "o", "p", "q", "r", "s", "t", "u", "v", "w", "x", "y", "z">>

LowerChar(c) ==
    IF \E i \in 1..26 : UpperLetters[i] = c
    THEN LowerLetters[CHOOSE i \in 1..26 : UpperLetters[i] = c]
    ELSE c

to_lowercase(s) == [i \in 1..Len(s) |-> LowerChar(s[i])]

\* Faulty variants of strip_prefix: one ignoring case, one refusing an
\* empty remainder.
strip_prefix_any_case(s, p) ==
    IF Len(s) >= Len(p) /\ to_lowercase(SubSeq(s, 1, Len(p))) = to_lowercase(p)
    THEN [some |-> SubSeq(s, Len(p) + 1, Len(s))]
    ELSE None

strip_prefix_nonempty(s, p) ==
    IF Len(s) > Len(p) /\ SubSeq(s, 1, Len(p)) = p
    THEN [some |-> SubSeq(s, Len(p) + 1, Len(s))]
    ELSE None

\* str::strip_prefix: the remainder after the exact prefix, or None
strip_prefix(s, p) ==
    IF Len(s) >= Len(p) /\ SubSeq(s, 1, Len(p)) = p
    THEN [some |-> SubSeq(s, Len(p) + 1, Len(s))]
    ELSE None

\* Uuid::to_string and Uuid::parse_str
UuidToString(u) == ToString(u)
UuidParse(s) ==
    IF \E u \in UuidSpace : UuidToString(u) = s
    THEN [some |-> CHOOSE u \in UuidSpace : UuidToString(u) = s]
    ELSE None

\* --------------------------------------------------------------- roles
\* models/role.rs: enum Role { User, Admin } and impl From<String> for Role
RoleAdminName == <<"a", "d", "m", "i", "n">>
RoleUserName == <<"u", "s", "e", "r">>

\* Faulty variant: any name that contains "admin" is Admin.
RoleFromContains(s) ==
    IF \E i \in 1..(Len(s) - 4) : to_lowercase(SubSeq(s, i, i + 4)) = RoleAdminName
    THEN "Admin" ELSE "User"

\* Role::from(s)
RoleFrom(s) ==
    CASE to_lowercase(s) = RoleAdminName -> "Admin"
      [] to_lowercase(s) = RoleUserName -> "User"
      [] OTHER -> "User"

\* -------------------------------------------------------------- tokens
\* The key a token was signed with: the configured secret (local), the
\* provider's realm key, or some other key.
JwtSecret == "jwt_secret"
RealmKey == "realm_key"
OtherKey == "other_key"

ExpectedAudience == "task-api"      \* state.config.audience
OtherAudience == "account"

NotAUuid == "not-a-uuid"
SubStrings == {UuidToString(u) : u \in UuidSpace} \cup {NotAUuid}

\* What a client may present to the local variant: claims {sub, exp}
\* under a signature.  Tokens under another key carry one subject only.
LocalTokens ==
    {t \in [key : {JwtSecret, OtherKey}, sub : SubStrings, exp : {0, MaxInstant * ClockStep}] :
        t.key = JwtSecret \/ t.sub = UuidToString(1)}

RealmRoleSets ==
    { {RoleAdminName}, {RoleUserName}, {RoleAdminName, RoleUserName},
      {<<"A", "d", "m", "i", "n">>}, {<<"o", "p", "s">>}, {} }

\* What a client may present to the provider variant.
ProviderTokens ==
    {t \in [key : {RealmKey, OtherKey}, sub : {UuidToString(1), NotAUuid},
            exp : {0, MaxInstant * ClockStep},
            aud : {ExpectedAudience, OtherAudience}, roles : RealmRoleSets] :
        \/ t.key = RealmKey /\ t.aud = ExpectedAudience /\ t.sub # NotAUuid
        \/ t.roles = {RoleAdminName, RoleUserName} /\ t.exp # 0}

\* What login_user hands out: the subject is a users row's id, the expiry
\* is 24 hours after the instant of the login
IssuedTokens ==
    {[key |-> JwtSecret, sub |-> UuidToString(u), exp |-> t + TokenLifetime] :
        u \in UuidSpace, t \in Instants}

AllTokens == LocalTokens \cup ProviderTokens \cup IssuedTokens

\* jsonwebtoken::encode: the compact form, one opaque symbol of text
Encode(t) == ToString(t)

\* the parsing half of jsonwebtoken::decode: the token a text is the
\* compact form of, or None for text that is no JWT
ParseJwt(text) ==
    IF Len(text) = 1 /\ \E t \in AllTokens : Encode(t) = text[1]
    THEN [some |-> CHOOSE t \in AllTokens : Encode(t) = text[1]]
    ELSE None

IsSome(o) == "some" \in DOMAIN o

\* Faulty variant of decode: the expiry is not validated.
decode_any_expiry(text, secret, t) ==
    LET p == ParseJwt(text) IN
    IF IsSome(p) /\ p.some.key = secret
    THEN [some |-> [sub |-> p.some.sub, exp |-> p.some.exp]]
    ELSE None

\* jsonwebtoken::decode::<Claims>(token, &DecodingKey::from_secret(secret),
\* &Validation::default()): the claims, or None when the text is no JWT, the
\* signature is not the secret's, or exp < now - leeway
decode(text, secret, t) ==
    LET p == ParseJwt(text) IN
    IF IsSome(p) /\ p.some.key = secret /\ ~(p.some.exp < t - Leeway)
    THEN [some |-> [sub |-> p.some.sub, exp |-> p.some.exp]]
    ELSE None

\* ------------------------------------------------------------- headers
\* The Authorization header of a request: absent, present with bytes that
\* are no visible text (to_str fails), or present with a text value.
NoHeader == [present |-> FALSE, text |-> FALSE, val |-> <<>>]
OpaqueHeader == [present |-> TRUE, text |-> FALSE, val |-> <<>>]
TextHeader(v) == [present |-> TRUE, text |-> TRUE, val |-> v]

Bearer(t) == TextHeader(BearerPrefix \o <<Encode(t)>>)

SampleToken(v) ==
    IF v = "local"
    THEN [key |-> JwtSecret, sub |-> UuidToString(1), exp |-> MaxInstant * ClockStep]
    ELSE [key |-> RealmKey, sub |-> UuidToString(1), exp |-> MaxInstant * ClockStep,
          aud |-> ExpectedAudience, roles |-> {RoleAdminName, RoleUserName}]

\* Header values that are not "Bearer <jwt>"
OddHeaders(v) ==
    { NoHeader, OpaqueHeader,
      TextHeader(<<>>),
      TextHeader(BearerPrefix),
      TextHeader(BearerPrefix \o <<"x">>),
      TextHeader(<<"B", "e", "a", "r", "e", "r">> \o <<Encode(SampleToken(v))>>),
      TextHeader(<<"b", "e", "a", "r", "e", "r", " ">> \o <<Encode(SampleToken(v))>>),
      TextHeader(<<"B", "a", "s", "i", "c", " ">> \o <<Encode(SampleToken(v))>>) }

Headers(v) ==
    OddHeaders(v) \cup
    {Bearer(t) : t \in IF v = "local" THEN LocalTokens ELSE ProviderTokens}

\* -------------------------------------------------------------- routes
PublicRoutes == {"health"}
ProtectedRoutes == {"create_task", "list_tasks", "delete_task"}
AdminRoutes == {"list_users", "delete_user"}
Routes == PublicRoutes \cup ProtectedRoutes \cup AdminRoutes

\* public routes the local create_routes has besides
AuthRoutes == {"register_user", "login_user"}

\* main: what is merged into the router create_routes returned
MergedRoutes == {"swagger_ui"}

RoutesOf(v) ==
    Routes \cup MergedRoutes \cup (IF v = "local" THEN AuthRoutes ELSE {})

GroupOf(route) ==
    IF route \in PublicRoutes \cup AuthRoutes THEN "public"
    ELSE IF route \in ProtectedRoutes THEN "protected" ELSE "admin"

\* create_routes (local): the layers of each group in the order the
\* route_layer calls add them, and the layers put on the merged router
LocalRouter ==
    [ public |-> <<>>,
      protected |-> <<"auth_guard">>,
      admin |-> <<"admin_guard", "auth_guard">>,
      outer |-> <<>> ]

\* create_routes (provider): the same for the layer calls
ProviderRouter ==
    [ public |-> <<>>,
      protected |-> <<"KeycloakAuthLayer">>,
      admin |-> <<"admin_guard", "KeycloakAuthLayer">>,
      outer |-> <<"logging_middleware">> ]

Reverse(s) == [i \in 1..Len(s) |-> s[Len(s) + 1 - i]]

\* Faulty variant: the layers run in the order they were added.
PipelineInAddedOrder(router, group) ==
    router.outer \o router[group] \o <<"handler">>

\* A layer wraps what was built before it: the layer added last runs first.
Pipeline(router, group) ==
    Reverse(router.outer) \o Reverse(router[group]) \o <<"handler">>

RouterOf(v) == IF v = "local" THEN LocalRouter ELSE ProviderRouter

\* --------------------------------------------------------------- state
VARIABLES
    variant,    \* which deployment this process is: "local" or "provider"
    now,        \* the wall clock, in seconds
    users,      \* the users table (local): rows [id, role]
    kcUsers,    \* the identity provider's users (provider): uuids
    tasks,      \* the tasks table: rows [id, user_id]
    nextTask,   \* the id the next inserted task gets
    req,        \* the request tasks: one record per slot
    minted,     \* the ids the database has generated for users rows so far
    observed,   \* what a probe on the users query of auth_guard has recorded
    call        \* a function called on its own: its argument and its result

vars == <<variant, now, users, kcUsers, tasks, nextTask, req, observed, call, minted>>

DbRoles == {"admin", "user"}

\* users rows: id, role and verified of the User struct.  No code reads
\* verified; the rows a table starts with are administrators, verified, and
\* users, not verified
UserRows ==
    {u \in [id : UuidSpace, role : DbRoles, verified : BOOLEAN] :
        u.verified = (u.role = "admin")}

\* users tables: at most one row per id
UserStores ==
    {s \in SUBSET UserRows :
        \A a, b \in s : a.id = b.id => a = b}

\* response bodies: none; the text of a (StatusCode, &str) response; the
\* JSON object of a Json(..) response
NoBody == [ctype |-> "none"]
TextBody(msg) == [ctype |-> "text/plain; charset=utf-8", text |-> msg]
JsonFail(msg) == [ctype |-> "application/json", json |-> [status |-> "fail", error |-> msg]]
JsonSuccess == [ctype |-> "application/json", json |-> [status |-> "success"]]
OpaqueBody == [ctype |-> "unspecified"]

\* the errors a collaborator hands back: sqlx::Error from the pool,
\* reqwest::Error from the HTTP client, the text of a response of the
\* identity provider that is not a success
DbErrors ==
    { [source |-> "sqlx", text |-> "pool timed out while waiting for an open connection"],
      [source |-> "sqlx", text |-> "error returned from database"] }
HttpErrors ==
    { [source |-> "reqwest", text |-> "error sending request"],
      [source |-> "reqwest", text |-> "error decoding response body"] }
KeycloakErrors ==
    { [source |-> "keycloak", text |-> "unknown_error"],
      [source |-> "keycloak", text |-> "<no body>"] }

\* e.to_string(): the Display text of the error
ErrToString(e) == e.text

\* json!({"status": "fail", "error": .., "details": ..})
JsonFailDetails(msg, details) ==
    [ctype |-> "application/json",
     json |-> [status |-> "fail", error |-> msg, details |-> details]]

NoCall == [fn |-> "none", arg |-> <<>>, out |-> "none"]

IdleReq ==
    [ pc |-> "idle", route |-> "none", arg |-> 0, hdr |-> NoHeader, others |-> {}, pos |-> 0,
      ext |-> None, bind |-> 0, vtime |-> 0, upstreamErr |-> FALSE, cause |-> None,
      payload |-> None,
      status |-> 0, msg |-> "", body |-> NoBody, trace |-> <<>>, log |-> <<>> ]

Init ==
    /\ variant \in {"local", "provider"}
    /\ now = 0
    /\ users \in IF variant = "local" THEN UserStores ELSE {{}}
    /\ kcUsers \in IF variant = "provider" THEN SUBSET UuidSpace ELSE {{}}
    /\ tasks = {}
    /\ nextTask = 1
    /\ req = [r \in ReqIds |-> IdleReq]
    /\ observed = {}
    /\ minted = {u.id : u \in users}
    /\ call = NoCall

\* the stages a request to this route passes: those create_routes layered
\* on its group, or the merged service alone
Stages(q) ==
    IF q.route \in MergedRoutes THEN <<"handler">>
    ELSE Pipeline(RouterOf(variant), GroupOf(q.route))
Stage(q) == IF q.pc = "run" THEN Stages(q)[q.pos] ELSE "none"

\* the request record after a stage was entered
Enter(q, name) == [q EXCEPT !.trace = Append(@, name)]

\* the request record once a response with this status and body was
\* produced: it is handed to logging_middleware when that wraps the route,
\* else to the client
Answer(q, status, msg, body) ==
    [q EXCEPT !.status = status, !.msg = msg, !.body = body,
              !.pc = IF \E i \in 1..Len(q.trace) : q.trace[i] = "logging_middleware"
                     THEN "respond" ELSE "done"]

\* a handler's response: Json(json!({..})) beside the status, or the bare
\* status of StatusCode::NO_CONTENT
Respond(q, status, msg) ==
    Answer(q, status, msg,
           IF status = 204 THEN NoBody
           ELSE IF status >= 400 THEN JsonFail(msg) ELSE JsonSuccess)

\* the response of a handler's map_err closure whose json!({..}) carries
\* "details": e.to_string() of the error the collaborator handed back
RespondDetails(q, status, msg, e) ==
    Answer([q EXCEPT !.cause = [some |-> e]], status, msg,
           JsonFailDetails(msg, ErrToString(e)))

\* the response of a map_err closure whose json!({..}) has no "details"
RespondFor(q, status, msg, e) ==
    Respond([q EXCEPT !.cause = [some |-> e]], status, msg)

\* a guard's Err((StatusCode, &'static str)) turned into a response: the
\* status, the string as a text/plain body
Reject(q, status, msg) == Answer(q, status, msg, TextBody(msg))

\* next.run(req): the request record handed to the next inner stage
NextRun(q) == [q EXCEPT !.pos = @ + 1, !.pc = "run"]

\* the task unwinds with a panic: no response is produced
Panic(q) == [q EXCEPT !.pc = "panicked"]

\* ---------------------------------------------------------- environment
\* a request arrives at a matched route
ArriveFrom(r, routes, headers, otherHeaders) ==
    /\ req[r].pc = "idle"
    /\ \E route \in routes, h \in headers, o \in otherHeaders, a \in UuidSpace :
         req' = [req EXCEPT ![r] =
                    [IdleReq EXCEPT !.pc = "run", !.pos = 1, !.route = route,
                                    !.hdr = h, !.others = o,
                                    !.arg = IF route \in {"delete_user", "delete_task"}
                                            THEN a ELSE 0]]

Arrive(r) ==
    /\ ArriveFrom(r, RoutesOf(variant), Headers(variant), {{}})
    /\ UNCHANGED <<call, observed, minted, variant, now, users, kcUsers, tasks, nextTask>>

\* the request task ends and its slot serves the next connection
Finish(r) ==
    /\ req[r].pc \in {"done", "panicked"}
    /\ req' = [req EXCEPT ![r] = IdleReq]
    /\ UNCHANGED <<call, observed, minted, variant, now, users, kcUsers, tasks, nextTask>>

Tick ==
    /\ now + ClockStep \in Instants
    /\ now' = now + ClockStep
    /\ UNCHANGED <<call, observed, minted, variant, users, kcUsers, tasks, nextTask, req>>

\* ---------------------------------------------------------- auth_guard
\* auth_guard up to the await of the users query
AuthGuardVerify(q, t) ==
    LET e == Enter(q, "auth_guard") IN
    IF ~(e.hdr.present /\ e.hdr.text)
    THEN Reject(e, 401, "Missing or invalid Authorization header")
    ELSE LET token == strip_prefix(e.hdr.val, BearerPrefix) IN
         IF ~IsSome(token)
         THEN Reject(e, 401, "Invalid token format")
         ELSE LET d == Enter(e, "decode")
                  claims == decode(token.some, JwtSecret, t) IN
              IF ~IsSome(claims)
              THEN Reject([d EXCEPT !.vtime = t], 401, "Invalid token")
              ELSE LET id == UuidParse(claims.some.sub) IN
                   IF ~IsSome(id)
                   THEN Panic([d EXCEPT !.vtime = t])
                   ELSE [d EXCEPT !.vtime = t, !.bind = id.some, !.pc = "fetch"]

\* Faulty variant of the users query: any row answers it.
AuthGuardFetchAnyRow(q, store, dbOk) ==
    LET f == Enter(q, "fetch_one") IN
    IF dbOk /\ store # {}
    THEN NextRun([Enter(f, "insert") EXCEPT
                     !.ext = [some |-> CHOOSE u \in store : \A v \in store : u.id >= v.id]])
    ELSE Reject([f EXCEPT !.upstreamErr = ~dbOk], 401, "User not found")

\* Faulty variant of the users query: outside the admin group the identity
\* attached is given the role "user".
AuthGuardFetchRouteScoped(q, store, dbOk) ==
    LET f == Enter(q, "fetch_one")
        rows == {u \in store : u.id = q.bind}
        row == CHOOSE u \in rows : TRUE IN
    IF dbOk /\ rows # {}
    THEN NextRun([Enter(f, "insert") EXCEPT
                     !.ext = [some |-> IF q.route \in AdminRoutes THEN row
                                       ELSE [row EXCEPT !.role = "user"]]])
    ELSE Reject([f EXCEPT !.upstreamErr = ~dbOk], 401, "User not found")

\* Faulty variant of the users query: the identity is kept in one slot of
\* the process, and a request finds there what another request in flight
\* has put.
AuthGuardFetchSharedSlot(q, store, dbOk) ==
    LET f == Enter(q, "fetch_one")
        rows == {u \in store : u.id = q.bind}
        slot == {req[o].ext.some : o \in {o \in DOMAIN req : IsSome(req[o].ext)}} IN
    IF dbOk /\ rows # {}
    THEN NextRun([Enter(f, "insert") EXCEPT
                     !.ext = [some |-> IF slot # {} THEN CHOOSE u \in slot : TRUE
                                       ELSE CHOOSE u \in rows : TRUE]])
    ELSE Reject([f EXCEPT !.upstreamErr = ~dbOk], 401, "User not found")

\* Faulty variant of the users query: identities are cached across
\* requests, and one resolved in the past is attached again though its row
\* is gone.
AuthGuardFetchCached(q, store, dbOk) ==
    LET f == Enter(q, "fetch_one")
        rows == {u \in store : u.id = q.bind} IN
    IF dbOk /\ rows # {}
    THEN NextRun([Enter(f, "insert") EXCEPT !.ext = [some |-> CHOOSE u \in rows : TRUE]])
    ELSE IF q.bind \in minted
    THEN NextRun([Enter(f, "insert") EXCEPT !.ext = [some |-> [id |-> q.bind, role |-> "user", verified |-> FALSE]]])
    ELSE Reject([f EXCEPT !.upstreamErr = ~dbOk], 401, "User not found")

\* fetch_one(&state.db) and what follows it: the row found is attached and
\* the next stage runs; no row, or a failing query, is "User not found"
AuthGuardFetch(q, store, dbOk) ==
    LET f == Enter(q, "fetch_one")
        rows == {u \in store : u.id = q.bind} IN
    IF dbOk /\ rows # {}
    THEN NextRun([Enter(f, "insert") EXCEPT !.ext = [some |-> CHOOSE u \in rows : TRUE]])
    ELSE Reject([f EXCEPT !.upstreamErr = ~dbOk], 401, "User not found")

auth_guard(r) ==
    /\ Stage(req[r]) = "auth_guard"
    /\ req' = [req EXCEPT ![r] = AuthGuardVerify(req[r], now)]
    /\ UNCHANGED <<call, observed, minted, variant, now, users, kcUsers, tasks, nextTask>>

auth_guard_fetch(r) ==
    /\ req[r].pc = "fetch"
    /\ \E dbOk \in BOOLEAN :
         req' = [req EXCEPT ![r] = AuthGuardFetch(req[r], users, dbOk)]
    /\ UNCHANGED <<call, observed, minted, variant, now, users, kcUsers, tasks, nextTask>>

\* the users query of auth_guard under a probe that records, whenever the
\* database answers, the token presented, the route asked for, the row the
\* table held for the token's subject and the identity attached
auth_guard_fetch_observed(r) ==
    /\ req[r].pc = "fetch"
    /\ \E dbOk \in BOOLEAN :
         LET after == AuthGuardFetch(req[r], users, dbOk)
             rows == {u \in users : u.id = req[r].bind} IN
         /\ req' = [req EXCEPT ![r] = after]
         /\ observed' =
                IF dbOk
                THEN observed \cup
                       {[ token |-> req[r].hdr.val,
                          route |-> req[r].route,
                          row |-> IF rows = {} THEN None
                                  ELSE [some |-> CHOOSE u \in rows : TRUE],
                          identity |-> after.ext ]}
                ELSE observed
    /\ UNCHANGED <<call, minted, variant, now, users, kcUsers, tasks, nextTask>>

\* --------------------------------------------------------- admin_guard
\* Faulty variant: the role is not looked at.
AdminGuardAnyRole(q) ==
    LET e == Enter(q, "admin_guard") IN
    IF ~IsSome(e.ext)
    THEN Reject(e, 401, "User not authenticated")
    ELSE NextRun(e)

\* Faulty variant: the identity is unwrapped, a missing one panics.
AdminGuardUnwrap(q) ==
    LET e == Enter(q, "admin_guard") IN
    IF ~IsSome(e.ext)
    THEN Panic(e)
    ELSE IF e.ext.some.role # "admin"
         THEN Reject(e, 403, "Admin access required")
         ELSE NextRun(e)

AdminGuard(q) ==
    LET e == Enter(q, "admin_guard") IN
    IF ~IsSome(e.ext)
    THEN Reject(e, 401, "User not authenticated")
    ELSE IF e.ext.some.role # "admin"
         THEN Reject(e, 403, "Admin access required")
         ELSE NextRun(e)

admin_guard(r) ==
    /\ variant = "local"
    /\ Stage(req[r]) = "admin_guard"
    /\ req' = [req EXCEPT ![r] = AdminGuard(req[r])]
    /\ UNCHANGED <<call, observed, minted, variant, now, users, kcUsers, tasks, nextTask>>

\* ------------------------------------------------- provider-side guards
KeycloakRejectStatus == {400, 401, 403, 500}
RequiredRoles == {"User"}            \* .required_roles(vec![Role::User])

\* KeycloakAuthLayer in PassthroughMode::Block, as create_routes builds it:
\* the bearer token is verified against the realm's keys (when they can be
\* had), its audience against expected_audiences, its realm roles, each
\* through Role::from, against required_roles; the verified token is put in
\* the request's extensions and the inner service runs, or the layer answers.
KeycloakAuth(q, t, keysOk, rejectStatus) ==
    LET e == Enter(q, "KeycloakAuthLayer")
        token == IF e.hdr.present /\ e.hdr.text
                 THEN strip_prefix(e.hdr.val, BearerPrefix) ELSE None
        p == IF IsSome(token) THEN ParseJwt(token.some) ELSE None
        roles == IF IsSome(p) /\ "roles" \in DOMAIN p.some
                 THEN {RoleFrom(s) : s \in p.some.roles} ELSE {} IN
    IF /\ IsSome(p)
       /\ keysOk
       /\ "aud" \in DOMAIN p.some
       /\ p.some.key = RealmKey
       /\ ~(p.some.exp < t - Leeway)
       /\ p.some.aud = ExpectedAudience
       /\ RequiredRoles \subseteq roles
    THEN NextRun([Enter(e, "insert") EXCEPT
                     !.vtime = t,
                     !.ext = [some |-> [subject |-> p.some.sub, roles |-> roles]]])
    ELSE Answer([e EXCEPT !.vtime = t, !.upstreamErr = ~keysOk], rejectStatus, "auth error",
                OpaqueBody)

KeycloakAuthLayer(r) ==
    /\ Stage(req[r]) = "KeycloakAuthLayer"
    /\ \E keysOk \in BOOLEAN, st \in KeycloakRejectStatus :
         req' = [req EXCEPT ![r] = KeycloakAuth(req[r], now, keysOk, st)]
    /\ UNCHANGED <<call, observed, minted, variant, now, users, kcUsers, tasks, nextTask>>

\* admin_guard of the provider variant: the attached identity must hold the
\* Admin role
ProviderAdminGuard(q) ==
    LET e == Enter(q, "admin_guard") IN
    IF ~IsSome(e.ext)
    THEN Reject(e, 401, "User not authenticated")
    ELSE IF "Admin" \notin e.ext.some.roles
         THEN Reject(e, 403, "Admin access required")
         ELSE NextRun(e)

provider_admin_guard(r) ==
    /\ variant = "provider"
    /\ Stage(req[r]) = "admin_guard"
    /\ req' = [req EXCEPT ![r] = ProviderAdminGuard(req[r])]
    /\ UNCHANGED <<call, observed, minted, variant, now, users, kcUsers, tasks, nextTask>>

\* -------------------------------------------------- logging_middleware
\* Faulty variant: redirections are logged like the codes of no band.
LevelOfTwoHundredsOnly(status) ==
    IF status >= 200 /\ status <= 299 THEN "info"
    ELSE IF status >= 400 /\ status <= 499 THEN "warn"
    ELSE IF status >= 500 /\ status <= 599 THEN "error"
    ELSE "debug"

LevelOf(status) ==
    IF status >= 200 /\ status <= 299 THEN "info"
    ELSE IF status >= 300 /\ status <= 399 THEN "info"
    ELSE IF status >= 400 /\ status <= 499 THEN "warn"
    ELSE IF status >= 500 /\ status <= 599 THEN "error"
    ELSE "debug"

\* str::contains
Contains(s, sub) ==
    \E i \in 1..(Len(s) - Len(sub) + 1) : SubSeq(s, i, i + Len(sub) - 1) = sub

AuthorizationName ==
    <<"a", "u", "t", "h", "o", "r", "i", "z", "a", "t", "i", "o", "n">>
CookieName == <<"c", "o", "o", "k", "i", "e">>
TokenName == <<"t", "o", "k", "e", "n">>

\* the HeaderName of a header sent under this name: the http crate holds
\* header names in lower case
HeaderNameOf(wire) == to_lowercase(wire)

\* request.headers(): the Authorization header and the others
AllHeaders(q) ==
    q.others \cup
    (IF q.hdr.present
     THEN {[name |-> <<"A">> \o SubSeq(AuthorizationName, 2, 13),
            text |-> q.hdr.text, val |-> q.hdr.val]}
     ELSE {})

\* Faulty variant: only the headers named exactly so are left out.
HeaderSnapshotExactNames(hs) ==
    {[name |-> HeaderNameOf(h.name), val |-> h.val] :
        h \in {g \in hs :
                  /\ to_lowercase(HeaderNameOf(g.name)) \notin
                        {AuthorizationName, CookieName, TokenName}
                  /\ g.text}}

\* the headers map logged with the entry event
HeaderSnapshot(hs) ==
    {[name |-> HeaderNameOf(h.name), val |-> h.val] :
        h \in {g \in hs :
                  LET name_str == to_lowercase(HeaderNameOf(g.name)) IN
                  /\ ~(\/ Contains(name_str, AuthorizationName)
                        \/ Contains(name_str, CookieName)
                        \/ Contains(name_str, TokenName))
                  /\ g.text}}

\* logging_middleware up to next.run(request)
LoggingEnter(q, rid) ==
    NextRun([Enter(q, "logging_middleware") EXCEPT
                !.log = Append(@, [event |-> "started", level |-> "info",
                                   request_id |-> rid,
                                   headers |-> HeaderSnapshot(AllHeaders(q))])])

\* Faulty variants of the completion: one logs under an id of its own, one
\* answers every server error with a body of its own.
LoggingCompleteOwnId(q) ==
    [q EXCEPT !.pc = "done",
              !.log = Append(@, [event |-> "completed", level |-> LevelOf(q.status),
                                 request_id |-> (q.log[1].request_id % MaxRid) + 1,
                                 status |-> q.status])]

LoggingCompleteMasking(q) ==
    [q EXCEPT !.pc = "done",
              !.body = IF q.status >= 500 THEN JsonFail("Internal server error") ELSE @,
              !.log = Append(@, [event |-> "completed", level |-> LevelOf(q.status),
                                 request_id |-> q.log[1].request_id,
                                 status |-> q.status])]

\* logging_middleware after next.run(request) returned the response
LoggingComplete(q) ==
    [q EXCEPT !.pc = "done",
              !.log = Append(@, [event |-> "completed", level |-> LevelOf(q.status),
                                 request_id |-> q.log[1].request_id,
                                 status |-> q.status])]

logging_middleware(r) ==
    /\ Stage(req[r]) = "logging_middleware"
    /\ \E rid \in 1..MaxRid :
         req' = [req EXCEPT ![r] = LoggingEnter(req[r], rid)]
    /\ UNCHANGED <<call, observed, minted, variant, now, users, kcUsers, tasks, nextTask>>

logging_middleware_complete(r) ==
    /\ req[r].pc = "respond"
    /\ req' = [req EXCEPT ![r] = LoggingComplete(req[r])]
    /\ UNCHANGED <<call, observed, minted, variant, now, users, kcUsers, tasks, nextTask>>

\* ------------------------------------------------------------- handlers
AtHandler(r, route) == Stage(req[r]) = "handler" /\ req[r].route = route

health(r) ==
    /\ AtHandler(r, "health")
    /\ req' = [req EXCEPT ![r] = Respond(Enter(req[r], "handler"), 200, "")]
    /\ UNCHANGED <<call, observed, minted, variant, now, users, kcUsers, tasks, nextTask>>

\* SwaggerUi, merged into the router in main: it serves the documentation
swagger_ui(r) ==
    /\ AtHandler(r, "swagger_ui")
    /\ req' = [req EXCEPT ![r] = Answer(Enter(req[r], "handler"), 200, "", OpaqueBody)]
    /\ UNCHANGED <<call, observed, minted, variant, now, users, kcUsers, tasks, nextTask>>

\* ---- local variant: handlers/user.rs and handlers/task.rs over the tables
\* register_user: hash the password, INSERT .. 'user' .. RETURNING *; the id
\* of the new row is one no row has
\* what a client may put beside name, email and password into the JSON
\* body of register_user: nothing, or a role and a verified flag
RegisterExtras ==
    {[role |-> "", verified |-> FALSE], [role |-> "admin", verified |-> TRUE]}

\* Faulty variant of the INSERT: role and verified are taken from the body.
RegisterRowFromPayload(ins, extra) ==
    [id |-> ins, role |-> IF extra.role = "" THEN "user" ELSE extra.role,
     verified |-> extra.verified]

\* INSERT INTO users (name, email, password, role, verified, ..)
\* VALUES ($1, $2, $3, 'user', false, ..) RETURNING *
RegisterRow(ins, extra) == [id |-> ins, role |-> "user", verified |-> FALSE]

RegisterUser(r) ==
    /\ variant = "local" /\ AtHandler(r, "register_user")
    /\ \E extra \in RegisterExtras :
       LET q == [Enter(req[r], "handler") EXCEPT !.payload = [some |-> extra]]
           free == UuidSpace \ minted IN
       \E hashOk \in BOOLEAN, ins \in {0} \cup free, e \in DbErrors :
         IF ~hashOk
         THEN /\ req' = [req EXCEPT ![r] = Respond(q, 500, "Failed to hash password")]
              /\ UNCHANGED <<users, minted>>
         ELSE IF ins = 0
         THEN /\ req' = [req EXCEPT ![r] =
                            RespondDetails(q, 400, "Failed to register user", e)]
              /\ UNCHANGED <<users, minted>>
         ELSE /\ req' = [req EXCEPT ![r] = Respond(q, 201, "")]
              /\ users' = users \cup {RegisterRow(ins, extra)}
              /\ minted' = minted \cup {ins}
    /\ UNCHANGED <<call, variant, now, kcUsers, tasks, nextTask>>

register_user(r) == RegisterUser(r) /\ observed' = observed

\* register_user under a probe that records the id of every account made
register_user_observed(r) ==
    /\ RegisterUser(r)
    /\ observed' = observed \cup {[registered |-> u.id] : u \in users' \ users}

\* the error of fetch_one when the query returns no row
RowNotFound ==
    [source |-> "sqlx",
     text |-> "no rows returned by a query that expected to return at least one row"]
BcryptErrors == {[source |-> "bcrypt", text |-> "Invalid hash"]}

\* Json(LoginResponse {user, token})
LoginBody(user, token) ==
    [ctype |-> "application/json", json |-> [user |-> user, token |-> token]]

\* login_user: SELECT * FROM users WHERE email = $1, verify the password,
\* encode claims {sub: user.id, exp: now + 24 h} under the secret; `found`
\* is the row the payload's email selects
LoginUser(r) ==
    /\ variant = "local" /\ AtHandler(r, "login_user")
    /\ LET q == Enter(req[r], "handler") IN
       \E dbOk \in BOOLEAN, found \in {None} \cup {[some |-> u] : u \in users},
          verified \in {"valid", "invalid", "error"}, encodeOk \in BOOLEAN,
          e \in DbErrors, b \in BcryptErrors :
         req' = [req EXCEPT ![r] =
                    IF ~dbOk
                    THEN RespondDetails(q, 401, "Invalid email or password", e)
                    ELSE IF ~IsSome(found)
                    THEN RespondDetails(q, 401, "Invalid email or password", RowNotFound)
                    ELSE IF verified = "error"
                    THEN RespondDetails(q, 500, "Failed to verify password", b)
                    ELSE IF verified = "invalid"
                    THEN Respond(q, 401, "Invalid email or password")
                    ELSE IF ~encodeOk
                    THEN Respond(q, 500, "Failed to generate token")
                    ELSE Answer(q, 200, "",
                                LoginBody(found.some,
                                          Encode([key |-> JwtSecret,
                                                  sub |-> UuidToString(found.some.id),
                                                  exp |-> now + TokenLifetime])))]
    /\ UNCHANGED <<call, minted, variant, now, users, kcUsers, tasks, nextTask>>

login_user(r) == LoginUser(r) /\ observed' = observed

\* login_user under a probe that records every token handed out and the
\* account it was handed out for
login_user_observed(r) ==
    /\ LoginUser(r)
    /\ observed' =
           IF req'[r].status = 200
           THEN observed \cup {[issued |-> req'[r].body.json.token,
                                account |-> req'[r].body.json.user.id]}
           ELSE observed

list_users(r) ==
    /\ variant = "local" /\ AtHandler(r, "list_users")
    /\ \E dbOk \in BOOLEAN, e \in DbErrors :
         req' = [req EXCEPT ![r] =
                    IF dbOk THEN Respond(Enter(req[r], "handler"), 200, "")
                    ELSE RespondFor(Enter(req[r], "handler"), 500, "Failed to fetch users", e)]
    /\ UNCHANGED <<call, observed, minted, variant, now, users, kcUsers, tasks, nextTask>>

delete_user(r) ==
    /\ variant = "local" /\ AtHandler(r, "delete_user")
    /\ LET q == Enter(req[r], "handler")
           rows == {u \in users : u.id = q.arg} IN
       \E dbOk \in BOOLEAN, e \in DbErrors :
         IF ~dbOk
         THEN /\ req' = [req EXCEPT ![r] = RespondFor(q, 500, "Failed to delete user", e)]
              /\ users' = users
         ELSE IF rows = {}
         THEN /\ req' = [req EXCEPT ![r] = Respond(q, 404, "User not found")]
              /\ users' = users
         ELSE /\ req' = [req EXCEPT ![r] = Respond(q, 200, "")]
              /\ users' = users \ rows
    /\ UNCHANGED <<call, observed, minted, variant, now, kcUsers, tasks, nextTask>>

\* Faulty variant of the tasks query: the WHERE clause is missing.
TasksOfAnyone(store, uid) == store

\* SELECT * FROM tasks WHERE user_id = $1
TasksOf(store, uid) == {t \in store : t.user_id = uid}

\* Json(json!({"status": "success", "data": TaskListResponse::from(tasks)}))
ListBody(rows) ==
    [ctype |-> "application/json", json |-> [status |-> "success", data |-> rows]]

create_task(r) ==
    /\ variant = "local" /\ AtHandler(r, "create_task")
    /\ nextTask <= MaxTasks
    /\ LET q == Enter(req[r], "handler") IN
       \E dbOk \in BOOLEAN, e \in DbErrors :
         IF ~IsSome(q.ext)
         THEN /\ req' = [req EXCEPT ![r] = Respond(q, 500, "Missing request extension")]
              /\ UNCHANGED <<tasks, nextTask>>
         ELSE IF ~dbOk
         THEN /\ req' = [req EXCEPT ![r] = RespondDetails(q, 500, "Failed to create task", e)]
              /\ UNCHANGED <<tasks, nextTask>>
         ELSE /\ req' = [req EXCEPT ![r] = Respond(q, 201, "")]
              /\ tasks' = tasks \cup {[id |-> nextTask, user_id |-> q.ext.some.id]}
              /\ nextTask' = nextTask + 1
    /\ UNCHANGED <<call, observed, minted, variant, now, users, kcUsers>>

list_tasks(r) ==
    /\ variant = "local" /\ AtHandler(r, "list_tasks")
    /\ LET q == Enter(req[r], "handler") IN
       \E dbOk \in BOOLEAN, e \in DbErrors :
         req' = [req EXCEPT ![r] =
                    IF ~IsSome(q.ext) THEN Respond(q, 500, "Missing request extension")
                    ELSE IF ~dbOk THEN RespondDetails(q, 500, "Failed to fetch tasks", e)
                    ELSE Answer(q, 200, "", ListBody(TasksOf(tasks, q.ext.some.id)))]
    /\ UNCHANGED <<call, observed, minted, variant, now, users, kcUsers, tasks, nextTask>>

delete_task(r) ==
    /\ variant = "local" /\ AtHandler(r, "delete_task")
    /\ LET q == Enter(req[r], "handler")
           rows == IF IsSome(q.ext)
                   THEN {t \in tasks : t.id = q.arg /\ t.user_id = q.ext.some.id}
                   ELSE {} IN
       \E dbOk \in BOOLEAN, e \in DbErrors :
         IF ~IsSome(q.ext)
         THEN /\ req' = [req EXCEPT ![r] = Respond(q, 500, "Missing request extension")]
              /\ tasks' = tasks
         ELSE IF ~dbOk
         THEN /\ req' = [req EXCEPT ![r] = RespondDetails(q, 500, "Failed to delete task", e)]
              /\ tasks' = tasks
         ELSE IF rows = {}
         THEN /\ req' = [req EXCEPT ![r] = Respond(q, 404, "Task not found")]
              /\ tasks' = tasks
         ELSE /\ req' = [req EXCEPT ![r] = Respond(q, 204, "")]
              /\ tasks' = tasks \ rows
    /\ UNCHANGED <<call, observed, minted, variant, now, users, kcUsers, nextTask>>

\* ---- provider variant: handlers/user.rs and handlers/task.rs
\* get_admin_token: the client-credentials request to the provider's token
\* endpoint ends in a token, or in one of four Err responses
AdminTokenOutcomes == {"token", "unreachable", "refused", "unparsable", "missing"}

get_admin_token(q, outcome, e) ==
    CASE outcome = "unreachable" -> RespondDetails(q, 500, "Failed to get admin token", e)
      [] outcome = "refused"     -> Respond(q, 500, "Invalid admin credentials")
      [] outcome = "unparsable"  -> RespondDetails(q, 500, "Failed to parse token", e)
      [] outcome = "missing"     -> Respond(q, 500, "No access token in response")
      [] OTHER                   -> q

\* list_users: the admin token, then GET of the realm's users; a
\* createdTimestamp outside chrono's range makes
\* timestamp_millis_opt(..).unwrap() panic
provider_list_users(r) ==
    /\ variant = "provider" /\ AtHandler(r, "list_users")
    /\ LET q == Enter(req[r], "handler") IN
       \E token \in AdminTokenOutcomes,
          api \in {"answer", "unreachable", "error", "unparsable"},
          stampsOk \in BOOLEAN, e \in HttpErrors :
         req' = [req EXCEPT ![r] =
                    IF token # "token" THEN get_admin_token(q, token, e)
                    ELSE IF api = "unreachable"
                    THEN RespondDetails(q, 500, "Failed to fetch users from Keycloak", e)
                    ELSE IF api = "error" THEN Respond(q, 500, "Keycloak API error")
                    ELSE IF api = "unparsable"
                    THEN RespondDetails(q, 500, "Failed to parse users", e)
                    ELSE IF ~stampsOk THEN Panic(q)
                    ELSE Respond(q, 200, "")]
    /\ UNCHANGED <<call, observed, minted, variant, now, users, kcUsers, tasks, nextTask>>

\* what delete_user does with its collaborators, as events of the trace:
\* the token request, the answer of DELETE .../users/{id}, the DELETE on
\* the tasks table
TokenGranted == "get_admin_token: token"
TokenFailed == "get_admin_token: Err"
ProviderUnreachable == "DELETE users/{id}: no answer"
ProviderDeleted == "DELETE users/{id}: success"
ProviderNotFound == "DELETE users/{id}: 404"
ProviderError == "DELETE users/{id}: other status"
TasksCleanup == "DELETE FROM tasks WHERE user_id = $1"

\* Faulty variant of delete_user: the tasks are removed before the provider
\* is asked.
ProviderDeleteUserTasksFirst(q, token, api, dbOk, e, k, d) ==
    LET c == Enter(q, TasksCleanup)
        kept == {t \in tasks : t.user_id # q.arg} IN
    IF token # "token"
    THEN <<get_admin_token(Enter(c, TokenFailed), token, e), kcUsers, kept>>
    ELSE LET g == Enter(c, TokenGranted) IN
    IF api = "unreachable"
    THEN <<RespondDetails(Enter(g, ProviderUnreachable), 500,
                          "Failed to delete user from Keycloak", e), kcUsers, kept>>
    ELSE IF api = "answer" /\ q.arg \notin kcUsers
    THEN <<Respond(Enter(g, ProviderNotFound), 404, "User not found in Keycloak"),
           kcUsers, kept>>
    ELSE IF api = "error"
    THEN <<RespondDetails(Enter(g, ProviderError), 500, "Keycloak API error", k),
           kcUsers, kept>>
    ELSE <<Respond(Enter(g, ProviderDeleted), 200, ""), kcUsers \ {q.arg}, kept>>

\* delete_user: the admin token, DELETE of the user at the provider, then
\* DELETE FROM tasks WHERE user_id = $1; the result is the response, the
\* provider's users and the tasks table afterwards
ProviderDeleteUser(q, token, api, dbOk, e, k, d) ==
    IF token # "token"
    THEN <<get_admin_token(Enter(q, TokenFailed), token, e), kcUsers, tasks>>
    ELSE LET g == Enter(q, TokenGranted) IN
    IF api = "unreachable"
    THEN <<RespondDetails(Enter(g, ProviderUnreachable), 500,
                          "Failed to delete user from Keycloak", e), kcUsers, tasks>>
    ELSE IF api = "answer" /\ q.arg \notin kcUsers
    THEN <<Respond(Enter(g, ProviderNotFound), 404, "User not found in Keycloak"),
           kcUsers, tasks>>
    ELSE IF api = "error"
    THEN <<RespondDetails(Enter(g, ProviderError), 500, "Keycloak API error", k),
           kcUsers, tasks>>
    ELSE LET c == Enter(Enter(g, ProviderDeleted), TasksCleanup) IN
    IF ~dbOk
    THEN <<RespondDetails(c, 500, "Failed to clean up tasks", d), kcUsers \ {q.arg}, tasks>>
    ELSE <<Respond(c, 200, ""), kcUsers \ {q.arg}, {t \in tasks : t.user_id # q.arg}>>

provider_delete_user(r) ==
    /\ variant = "provider" /\ AtHandler(r, "delete_user")
    /\ \E token \in AdminTokenOutcomes, api \in {"answer", "unreachable", "error"},
          dbOk \in BOOLEAN, e \in HttpErrors, k \in KeycloakErrors, d \in DbErrors :
         LET out == ProviderDeleteUser(Enter(req[r], "handler"), token, api, dbOk, e, k, d) IN
         /\ req' = [req EXCEPT ![r] = out[1]]
         /\ kcUsers' = out[2]
         /\ tasks' = out[3]
    /\ UNCHANGED <<call, observed, minted, variant, now, users, nextTask>>

\* the user id a provider-variant task handler works for: token.subject
\* parsed as a uuid
SubjectId(q) == IF IsSome(q.ext) THEN UuidParse(q.ext.some.subject) ELSE None

provider_create_task(r) ==
    /\ variant = "provider" /\ AtHandler(r, "create_task")
    /\ nextTask <= MaxTasks
    /\ LET q == Enter(req[r], "handler") IN
       \E dbOk \in BOOLEAN, e \in DbErrors :
         IF ~IsSome(q.ext)
         THEN /\ req' = [req EXCEPT ![r] = Respond(q, 500, "Missing request extension")]
              /\ UNCHANGED <<tasks, nextTask>>
         ELSE IF ~IsSome(SubjectId(q))
         THEN /\ req' = [req EXCEPT ![r] = Respond(q, 400, "Invalid user ID format")]
              /\ UNCHANGED <<tasks, nextTask>>
         ELSE IF ~dbOk
         THEN /\ req' = [req EXCEPT ![r] = RespondDetails(q, 500, "Failed to create task", e)]
              /\ UNCHANGED <<tasks, nextTask>>
         ELSE /\ req' = [req EXCEPT ![r] = Respond(q, 201, "")]
              /\ tasks' = tasks \cup {[id |-> nextTask, user_id |-> SubjectId(q).some]}
              /\ nextTask' = nextTask + 1
    /\ UNCHANGED <<call, observed, minted, variant, now, users, kcUsers>>

provider_list_tasks(r) ==
    /\ variant = "provider" /\ AtHandler(r, "list_tasks")
    /\ LET q == Enter(req[r], "handler") IN
       \E dbOk \in BOOLEAN, e \in DbErrors :
         req' = [req EXCEPT ![r] =
                    IF ~IsSome(q.ext) THEN Respond(q, 500, "Missing request extension")
                    ELSE IF ~IsSome(SubjectId(q))
                    THEN Respond(q, 400, "Invalid user ID format")
                    ELSE IF ~dbOk THEN RespondDetails(q, 500, "Failed to fetch tasks", e)
                    ELSE Answer(q, 200, "", ListBody(TasksOf(tasks, SubjectId(q).some)))]
    /\ UNCHANGED <<call, observed, minted, variant, now, users, kcUsers, tasks, nextTask>>

provider_delete_task(r) ==
    /\ variant = "provider" /\ AtHandler(r, "delete_task")
    /\ LET q == Enter(req[r], "handler")
           rows == IF IsSome(SubjectId(q))
                   THEN {t \in tasks : t.id = q.arg /\ t.user_id = SubjectId(q).some}
                   ELSE {} IN
       \E dbOk \in BOOLEAN, e \in DbErrors :
         IF ~IsSome(q.ext)
         THEN /\ req' = [req EXCEPT ![r] = Respond(q, 500, "Missing request extension")]
              /\ tasks' = tasks
         ELSE IF ~IsSome(SubjectId(q))
         THEN /\ req' = [req EXCEPT ![r] = Respond(q, 400, "Invalid user ID format")]
              /\ tasks' = tasks
         ELSE IF ~dbOk
         THEN /\ req' = [req EXCEPT ![r] = RespondDetails(q, 500, "Failed to delete task", e)]
              /\ tasks' = tasks
         ELSE IF rows = {}
         THEN /\ req' = [req EXCEPT ![r] = Respond(q, 404, "Task not found")]
              /\ tasks' = tasks
         ELSE /\ req' = [req EXCEPT ![r] = Respond(q, 204, "")]
              /\ tasks' = tasks \ rows
    /\ UNCHANGED <<call, observed, minted, variant, now, users, kcUsers, nextTask>>

\* ------------------------------------------------------- specification
Next ==
    \/ Tick
    \/ \E r \in ReqIds :
        \/ Arrive(r)
        \/ Finish(r)
        \/ auth_guard(r)
        \/ auth_guard_fetch(r)
        \/ admin_guard(r)
        \/ KeycloakAuthLayer(r)
        \/ provider_admin_guard(r)
        \/ logging_middleware(r)
        \/ logging_middleware_complete(r)
        \/ health(r)
        \/ swagger_ui(r)
        \/ register_user(r)
        \/ login_user(r)
        \/ list_users(r)
        \/ delete_user(r)
        \/ create_task(r)
        \/ list_tasks(r)
        \/ delete_task(r)
        \/ provider_list_users(r)
        \/ provider_delete_user(r)
        \/ provider_create_task(r)
        \/ provider_list_tasks(r)
        \/ provider_delete_task(r)

Spec == Init /\ [][Next]_vars

\* ------------------------------------------- admin_guard on its own
\* A router whose admin group lacks the authentication layer hands its
\* requests to admin_guard as they arrive: with no User in the extensions,
\* or with whatever another layer put there.
GuardInit ==
    /\ variant = "local"
    /\ now = 0
    /\ users \in UserStores
    /\ kcUsers = {}
    /\ tasks = {}
    /\ nextTask = 1
    /\ \E route \in AdminRoutes, a \in UuidSpace,
          ext \in {None} \cup {[some |-> u] : u \in UserRows} :
         req = [r \in ReqIds |->
                   [IdleReq EXCEPT !.pc = "run", !.pos = 2, !.route = route,
                                   !.arg = IF route = "delete_user" THEN a ELSE 0,
                                   !.ext = ext]]
    /\ observed = {}
    /\ minted = {u.id : u \in users}
    /\ call = NoCall

GuardNext ==
    \E r \in ReqIds :
        \/ admin_guard(r)
        \/ list_users(r)
        \/ delete_user(r)
        \/ Finish(r)

GuardSpec == GuardInit /\ [][GuardNext]_vars

\* ------------------------------- repeated authentication, observed
\* Clients holding valid tokens call an authenticated route, the user
\* management routes and register_user in any order, one request after the
\* other; the probe records every users query of auth_guard.
IdemTokens == {t \in LocalTokens : t.key = JwtSecret /\ t.sub # NotAUuid /\ t.exp # 0}
IdemRoutes == {"list_tasks", "delete_user", "register_user"}

IdemInit ==
    /\ variant = "local"
    /\ now = 0
    /\ users \in UserStores
    /\ kcUsers = {}
    /\ tasks = {}
    /\ nextTask = 1
    /\ req = [r \in ReqIds |-> IdleReq]
    /\ observed = {}
    /\ minted = {u.id : u \in users}
    /\ call = NoCall

IdemArrive(r) ==
    /\ ArriveFrom(r, IdemRoutes, {Bearer(t) : t \in IdemTokens}, {{}})
    /\ UNCHANGED <<call, observed, minted, variant, now, users, kcUsers, tasks, nextTask>>

IdemNext ==
    \E r \in ReqIds :
        \/ IdemArrive(r)
        \/ Finish(r)
        \/ auth_guard(r)
        \/ auth_guard_fetch_observed(r)
        \/ admin_guard(r)
        \/ register_user(r)
        \/ delete_user(r)
        \/ list_tasks(r)

IdemSpec == IdemInit /\ [][IdemNext]_vars

\* ------------------------------------------------ Role::from on its own
RoleAlphabet == {"a", "A", "d", "m", "M", "i", "n"}

\* the texts of this length over the alphabet
TextsOfLen(n) == [1..n -> RoleAlphabet]

\* longer role names a realm may carry
LongRoleNames ==
    { <<"U", "S", "E", "R">>, <<"o", "p", "s">>,
      <<"a", "d", "m", "i", "n", " ">>, <<" ", "a", "d", "m", "i", "n">>,
      <<"a", "d", "m", "i", "n", "s">>, <<"s", "u", "b", "a", "d", "m", "i", "n">>,
      <<"A", "D", "M", "I", "N", "I", "S", "T", "R", "A", "T", "O", "R">> }

\* role names as a realm may carry them: every short text over the letters
\* of "admin", "user", and the longer names
RoleInputs(maxLen) ==
    UNION {TextsOfLen(n) : n \in 0..maxLen} \cup {RoleUserName} \cup LongRoleNames

RoleInit ==
    /\ variant = "provider"
    /\ now = 0
    /\ users = {}
    /\ kcUsers = {}
    /\ tasks = {}
    /\ nextTask = 1
    /\ req = [r \in ReqIds |-> IdleReq]
    /\ observed = {}
    /\ minted = {u.id : u \in users}
    /\ \E s \in RoleInputs(MaxRoleLen) :
         call = [fn |-> "Role::from", arg |-> s, out |-> "none"]

role_from ==
    /\ call.fn = "Role::from" /\ call.out = "none"
    /\ call' = [call EXCEPT !.out = RoleFrom(call.arg)]
    /\ UNCHANGED <<observed, minted, variant, now, users, kcUsers, tasks, nextTask, req>>

RoleNext == role_from

RoleSpec == RoleInit /\ [][RoleNext]_vars

\* ------------------------------------------ logging_middleware on its own
\* logging_middleware around an inner service that may answer any status:
\* requests carry headers of several names and casings
SecretValue == <<"s">>
PlainValue == <<"v">>

HeaderSamples ==
    { [name |-> <<"C", "o", "o", "k", "i", "e">>, text |-> TRUE, val |-> SecretValue],
      [name |-> <<"X", "-", "A", "P", "I", "-", "T", "O", "K", "E", "N">>,
       text |-> TRUE, val |-> SecretValue],
      [name |-> <<"p", "r", "o", "x", "y", "-">> \o AuthorizationName,
       text |-> TRUE, val |-> SecretValue],
      [name |-> <<"A", "c", "c", "e", "p", "t">>, text |-> TRUE, val |-> PlainValue],
      [name |-> <<"x", "-", "i", "d">>, text |-> TRUE, val |-> PlainValue],
      [name |-> <<"X", "-", "B", "i", "n">>, text |-> FALSE, val |-> <<>>] }

\* the other headers of a request: none, all of the samples, those of the
\* samples with a secret value
HeaderSets ==
    { {}, HeaderSamples, {h \in HeaderSamples : h.val = SecretValue} }

\* StatusCode: codes of every band, and of none
StatusSamples ==
    {100, 199, 200, 299, 300, 302, 399, 400, 404, 499, 500, 503, 599, 600}

LogInit ==
    /\ variant = "provider"
    /\ now = 0
    /\ users = {}
    /\ kcUsers = {}
    /\ tasks = {}
    /\ nextTask = 1
    /\ req = [r \in ReqIds |-> IdleReq]
    /\ observed = {}
    /\ minted = {u.id : u \in users}
    /\ call = NoCall

LogArrive(r) ==
    /\ ArriveFrom(r, {"health"}, {NoHeader, Bearer(SampleToken("provider"))},
                  HeaderSets)
    /\ UNCHANGED <<call, observed, minted, variant, now, users, kcUsers, tasks, nextTask>>

\* next.run(request): whatever service is inside answers
inner_service(r) ==
    /\ Stage(req[r]) = "handler"
    /\ \E st \in StatusSamples :
         req' = [req EXCEPT ![r] = Answer(Enter(req[r], "handler"), st, "", OpaqueBody)]
    /\ UNCHANGED <<call, observed, minted, variant, now, users, kcUsers, tasks, nextTask>>

LogNext ==
    \E r \in ReqIds :
        \/ LogArrive(r)
        \/ logging_middleware(r)
        \/ inner_service(r)
        \/ logging_middleware_complete(r)
        \/ Finish(r)

LogSpec == LogInit /\ [][LogNext]_vars

\* ------------------------------------- two requests served concurrently
\* The server runs one task per connection: two requests of the local
\* variant are in flight together, their stages interleaved in any order.
\* One reads its identity in a handler (create_task), the other in
\* admin_guard (list_users).
PairIds == 1..(MaxReq + 1)
PairRoutes == {"create_task", "list_users"}

PairInit ==
    /\ variant = "local"
    /\ now = 0
    /\ users \in UserStores
    /\ kcUsers = {}
    /\ tasks = {}
    /\ nextTask = 1
    /\ req = [r \in PairIds |-> IdleReq]
    /\ observed = {}
    /\ minted = {u.id : u \in users}
    /\ call = NoCall

PairArrive(r) ==
    /\ ArriveFrom(r, PairRoutes, {Bearer(t) : t \in IdemTokens}, {{}})
    /\ UNCHANGED <<call, observed, minted, variant, now, users, kcUsers, tasks, nextTask>>

PairNext ==
    \E r \in PairIds :
        \/ PairArrive(r)
        \/ Finish(r)
        \/ auth_guard(r)
        \/ auth_guard_fetch(r)
        \/ admin_guard(r)
        \/ create_task(r)
        \/ list_users(r)

PairSpec == PairInit /\ [][PairNext]_vars


\* ------------------------------------------- tasks of several owners
\* Both variants over a tasks table that already holds tasks of one or two
\* owners; clients with valid tokens list and delete tasks, administrators
\* delete users.
TaskStores ==
    {s \in SUBSET [id : UuidSpace, user_id : UuidSpace] :
        \A a, b \in s : a.id = b.id => a = b}
OwnerRoutes == {"list_tasks", "delete_task", "delete_user"}
OwnerTokens(v) ==
    IF v = "local" THEN IdemTokens
    ELSE {t \in ProviderTokens :
            /\ t.key = RealmKey /\ t.aud = ExpectedAudience
            /\ t.sub # NotAUuid /\ t.exp # 0}

TaskInit ==
    /\ variant \in {"local", "provider"}
    /\ now = 0
    /\ users \in IF variant = "local" THEN UserStores ELSE {{}}
    /\ kcUsers \in IF variant = "provider" THEN SUBSET UuidSpace ELSE {{}}
    /\ tasks \in TaskStores
    /\ nextTask = MaxTasks + 1
    /\ req = [r \in ReqIds |-> IdleReq]
    /\ observed = {}
    /\ minted = {u.id : u \in users}
    /\ call = NoCall

TaskArrive(r) ==
    /\ ArriveFrom(r, OwnerRoutes, {Bearer(t) : t \in OwnerTokens(variant)}, {{}})
    /\ UNCHANGED <<call, observed, minted, variant, now, users, kcUsers, tasks, nextTask>>

TaskNext ==
    \E r \in ReqIds :
        \/ TaskArrive(r)
        \/ Finish(r)
        \/ auth_guard(r)
        \/ auth_guard_fetch(r)
        \/ admin_guard(r)
        \/ KeycloakAuthLayer(r)
        \/ provider_admin_guard(r)
        \/ logging_middleware(r)
        \/ logging_middleware_complete(r)
        \/ list_tasks(r)
        \/ delete_task(r)
        \/ delete_user(r)
        \/ provider_list_tasks(r)
        \/ provider_delete_task(r)
        \/ provider_delete_user(r)

TaskSpec == TaskInit /\ [][TaskNext]_vars


\* ------------------------------------------ clients of the public API
\* The local variant serving clients that register accounts, log in, and
\* present the tokens login_user handed out (or no header) to the admin
\* routes.
PublicApiRoutes == {"register_user", "login_user"} \cup AdminRoutes

IssuedHeaders ==
    {NoHeader} \cup
    {TextHeader(BearerPrefix \o <<o.issued>>) : o \in {o \in observed : "issued" \in DOMAIN o}}

PublicInit ==
    /\ variant = "local"
    /\ now = 0
    /\ users \in UserStores
    /\ kcUsers = {}
    /\ tasks = {}
    /\ nextTask = 1
    /\ req = [r \in ReqIds |-> IdleReq]
    /\ observed = {}
    /\ minted = {u.id : u \in users}
    /\ call = NoCall

PublicArrive(r) ==
    /\ ArriveFrom(r, PublicApiRoutes, IssuedHeaders, {{}})
    /\ UNCHANGED <<call, observed, minted, variant, now, users, kcUsers, tasks, nextTask>>

PublicNext ==
    \/ Tick
    \/ \E r \in ReqIds :
        \/ PublicArrive(r)
        \/ Finish(r)
        \/ auth_guard(r)
        \/ auth_guard_fetch(r)
        \/ admin_guard(r)
        \/ register_user_observed(r)
        \/ login_user_observed(r)
        \/ list_users(r)
        \/ delete_user(r)

PublicSpec == PublicInit /\ [][PublicNext]_vars


\* ============================================================== claims
Has(q, name) == \E i \in 1..Len(q.trace) : q.trace[i] = name
Count(q, name) == Cardinality({i \in 1..Len(q.trace) : q.trace[i] = name})
AuthStages == {"auth_guard", "KeycloakAuthLayer"}
Answered(q) == q.pc \in {"respond", "done"}

\* C1: on an admin route, in both compositions, admin_guard is entered only
\* after the authentication stage was entered and attached an identity to
\* the same request; it is never the first of the two to run.
C1_AdminGuardAfterAuth ==
    \A r \in ReqIds :
        LET q == req[r] IN
        \A i \in 1..Len(q.trace) :
            q.trace[i] = "admin_guard" =>
                /\ q.route \in AdminRoutes
                /\ IsSome(q.ext)
                /\ \E j \in 1..(i - 1) :
                      /\ q.trace[j] = "insert"
                      /\ \E k \in 1..(j - 1) : q.trace[k] \in AuthStages

C1_Witness ==
    \E r \in ReqIds :
        /\ variant = "local"
        /\ req[r].route = "delete_user"
        /\ Has(req[r], "admin_guard")

\* the identity attached to a request does not hold the admin role
NotAdmin(q) ==
    /\ IsSome(q.ext)
    /\ IF variant = "local"
       THEN q.ext.some.role # "admin"
       ELSE "Admin" \notin q.ext.some.roles

\* C2: a request on an admin route whose attached identity is not an admin
\* is answered 403 by admin_guard, and its handler is never invoked.
C2_NonAdminForbidden ==
    \A r \in ReqIds :
        LET q == req[r] IN
        (q.route \in AdminRoutes /\ NotAdmin(q)) =>
            /\ ~Has(q, "handler")
            /\ Has(q, "admin_guard") =>
                  (Answered(q) /\ q.status = 403 /\ q.msg = "Admin access required")

C2_Witness ==
    \E r \in ReqIds :
        /\ variant = "local"
        /\ req[r].route \in AdminRoutes
        /\ NotAdmin(req[r])
        /\ Has(req[r], "admin_guard")
        /\ req[r].status = 403

\* the token a request presents, when its header is "Bearer <jwt>"
Presented(q) ==
    LET token == IF q.hdr.present /\ q.hdr.text
                 THEN strip_prefix(q.hdr.val, BearerPrefix) ELSE None IN
    IF IsSome(token) THEN ParseJwt(token.some) ELSE None

\* the request presents a verifiable token of an identity that is Admin and
\* nothing else, and the collaborators answered
ValidAdminOnly(q) ==
    LET p == Presented(q) IN
    /\ IsSome(p)
    /\ ~q.upstreamErr
    /\ ~(p.some.exp < q.vtime)
    /\ IF variant = "local"
       THEN /\ p.some.key = JwtSecret
            /\ IsSome(q.ext)
            /\ q.ext.some.role = "admin"
       ELSE /\ "roles" \in DOMAIN p.some
            /\ p.some.key = RealmKey
            /\ p.some.aud = ExpectedAudience
            /\ {RoleFrom(s) : s \in p.some.roles} = {"Admin"}

\* C3: a request on an admin route with a valid token of an Admin (and only
\* Admin) identity passes every guard and reaches the handler, in the local
\* and in the provider composition.
C3_AdminReachesHandler ==
    \A r \in ReqIds :
        LET q == req[r] IN
        (q.route \in AdminRoutes /\ Answered(q) /\ ValidAdminOnly(q)) =>
            Has(q, "handler")

\* C4: whatever makes auth_guard fail, the request ends with 401 and no
\* inner stage runs.
C4_AuthFailureIs401 ==
    \A r \in ReqIds :
        LET q == req[r] IN
        (Has(q, "auth_guard") /\ q.pc # "fetch" /\ ~Has(q, "insert")) =>
            /\ q.pc = "done"
            /\ q.status = 401
            /\ ~Has(q, "admin_guard")
            /\ ~Has(q, "handler")

\* the header value starts with the seven characters of "Bearer "
StartsWithBearer(h) ==
    /\ h.present /\ h.text
    /\ Len(h.val) >= Len(BearerPrefix)
    /\ \A i \in 1..Len(BearerPrefix) : h.val[i] = BearerPrefix[i]

\* C5: a request whose Authorization header is missing or does not start
\* with exactly "Bearer " is rejected by auth_guard with 401, and neither
\* the JWT decode nor the users query was made for it.
C5_NoPrefixRejectedEarly ==
    \A r \in ReqIds :
        LET q == req[r] IN
        (Has(q, "auth_guard") /\ ~StartsWithBearer(q.hdr)) =>
            /\ q.pc = "done"
            /\ q.status = 401
            /\ ~Has(q, "decode")
            /\ ~Has(q, "fetch_one")
            /\ ~Has(q, "handler")

C5_Witness ==
    \E r \in ReqIds :
        /\ Has(req[r], "auth_guard")
        /\ req[r].hdr.text
        /\ Len(req[r].hdr.val) > Len(BearerPrefix)
        /\ ~StartsWithBearer(req[r].hdr)
        /\ to_lowercase(SubSeq(req[r].hdr.val, 1, Len(BearerPrefix))) = to_lowercase(BearerPrefix)
        /\ req[r].status = 401

MalformedHeaderMessages ==
    {"Missing or invalid Authorization header", "Invalid token format"}

\* C6 as the claim has it: "Bearer " with nothing after it is rejected as a
\* malformed header, before the JWT decode is invoked.
C6_EmptyTokenIsMalformedHeader ==
    \A r \in ReqIds :
        LET q == req[r] IN
        (Has(q, "auth_guard") /\ q.hdr = TextHeader(BearerPrefix)) =>
            /\ ~Has(q, "decode")
            /\ q.msg \in MalformedHeaderMessages

\* C6, amended: "Bearer " with nothing after it passes the prefix check; the
\* JWT decode is invoked on the empty token and fails, the request is
\* rejected 401 "Invalid token", no users query is made and no inner stage
\* runs.
C6_EmptyTokenIsInvalidToken ==
    \A r \in ReqIds :
        LET q == req[r] IN
        (Has(q, "auth_guard") /\ q.hdr = TextHeader(BearerPrefix)) =>
            /\ q.pc = "done"
            /\ q.status = 401
            /\ q.msg = "Invalid token"
            /\ Has(q, "decode")
            /\ ~Has(q, "fetch_one")
            /\ ~Has(q, "admin_guard")
            /\ ~Has(q, "handler")

C6_Witness ==
    \E r \in ReqIds :
        /\ Has(req[r], "auth_guard")
        /\ req[r].hdr = TextHeader(BearerPrefix)
        /\ req[r].status = 401

\* the request presents a token signed with the configured secret, not
\* expired when it was verified, whose subject is the text of a uuid
ValidLocalToken(q) ==
    LET p == Presented(q) IN
    /\ IsSome(p)
    /\ p.some.key = JwtSecret
    /\ ~(p.some.exp < q.vtime)
    /\ IsSome(UuidParse(p.some.sub))

C7_Verified ==
    \A r \in ReqIds :
        LET q == req[r] IN
        (Has(q, "decode") /\ ValidLocalToken(q)) =>
            /\ q.pc # "panicked"
            /\ q.pc = "fetch" \/ Has(q, "fetch_one")
            /\ Has(q, "insert") =>
                  /\ IsSome(q.ext)
                  /\ UuidToString(q.ext.some.id) = Presented(q).some.sub
                  /\ Count(q, "insert") = 1
                  /\ Count(q, "admin_guard") <= 1
                  /\ Count(q, "handler") <= 1

C7_Resolved ==
    \A r \in ReqIds :
        ( /\ req[r].pc = "fetch"
          /\ req'[r] # req[r]
          /\ ValidLocalToken(req[r])
          /\ ~req'[r].upstreamErr
          /\ \E u \in users : UuidToString(u.id) = Presented(req[r]).some.sub ) =>
            /\ req'[r].pc = "run"
            /\ req'[r].pos = req[r].pos + 1
            /\ IsSome(req'[r].ext)
            /\ req'[r].ext.some \in users
            /\ UuidToString(req'[r].ext.some.id) = Presented(req[r]).some.sub

\* C7: for a token signed with the configured secret, unexpired, whose
\* subject is a row of the users table, auth_guard attaches the identity
\* whose id is the token's subject and runs the next stage once, with that
\* identity attached.
C7_AttachesSubject == [](C7_Verified) /\ [][C7_Resolved]_vars

C7_Witness ==
    \E r \in ReqIds :
        /\ ValidLocalToken(req[r])
        /\ Has(req[r], "insert")
        /\ req[r].ext.some.id = 2
        /\ Cardinality(users) = 2
        /\ Has(req[r], "handler")

\* C8 as the claim has it: a token whose exp is earlier than the time of
\* verification is never accepted, whatever its signature.
C8_ExpiredRejected ==
    \A r \in ReqIds :
        LET q == req[r] IN
        (Has(q, "decode") /\ IsSome(Presented(q)) /\ Presented(q).some.exp < q.vtime) =>
            /\ q.pc = "done"
            /\ q.status = 401
            /\ q.msg = "Invalid token"
            /\ ~Has(q, "fetch_one")

\* C8, amended: a token whose exp is earlier than the time of verification
\* by more than the validation's leeway (60 s) is never accepted, whatever
\* its signature: the request is rejected 401 "Invalid token".
C8_ExpiredBeyondLeewayRejected ==
    \A r \in ReqIds :
        LET q == req[r] IN
        (Has(q, "decode") /\ IsSome(Presented(q))
            /\ Presented(q).some.exp < q.vtime - Leeway) =>
            /\ q.pc = "done"
            /\ q.status = 401
            /\ q.msg = "Invalid token"
            /\ ~Has(q, "fetch_one")
            /\ ~Has(q, "insert")

C8_Witness ==
    \E r \in ReqIds :
        /\ Has(req[r], "decode")
        /\ IsSome(Presented(req[r]))
        /\ Presented(req[r]).some.key = JwtSecret
        /\ Presented(req[r]).some.exp < req[r].vtime - Leeway
        /\ req[r].status = 401

\* C9: a correctly signed, unexpired token whose subject is not the text of
\* a uuid is rejected with 401; the request task does not crash.
C9_MalformedSubjectIs401 ==
    \A r \in ReqIds :
        LET q == req[r] IN
        ( /\ Has(q, "decode")
          /\ IsSome(Presented(q))
          /\ Presented(q).some.key = JwtSecret
          /\ ~(Presented(q).some.exp < q.vtime)
          /\ ~IsSome(UuidParse(Presented(q).some.sub)) ) =>
            /\ q.pc = "done"
            /\ q.status = 401

\* C10: when the users query of auth_guard fails (the database errs, as
\* opposed to holding no such row), the request is answered 500.
C10_LookupErrorIs500 ==
    \A r \in ReqIds :
        LET q == req[r] IN
        (Has(q, "fetch_one") /\ q.upstreamErr) =>
            /\ Answered(q)
            /\ q.status = 500

\* C11: admin_guard entered for a request with no identity in its
\* extensions answers 401 "User not authenticated"; the next stage is not
\* invoked and the request task does not panic.
C11_NoIdentityIs401 ==
    \A r \in ReqIds :
        LET q == req[r] IN
        (Has(q, "admin_guard") /\ ~IsSome(q.ext)) =>
            /\ q.pc = "done"
            /\ q.status = 401
            /\ q.msg = "User not authenticated"
            /\ q.trace = <<"admin_guard">>

C11_Witness ==
    \E r \in ReqIds :
        /\ Has(req[r], "admin_guard")
        /\ ~IsSome(req[r].ext)
        /\ req[r].status = 401

\* the response of this request was produced by auth_guard or admin_guard
RejectedByGuard(q) ==
    /\ Answered(q)
    /\ Len(q.trace) > 0
    /\ q.trace[Len(q.trace)] \in {"auth_guard", "decode", "fetch_one", "admin_guard"}

\* C12: every rejection by auth_guard or admin_guard carries the JSON body
\* {"status":"fail","error":<message>}; with the Authorization header omitted
\* that is 401 "Missing or invalid Authorization header", for a non-admin on
\* an admin route 403 "Admin access required".
C12_RejectionIsJsonEnvelope ==
    \A r \in ReqIds :
        LET q == req[r] IN
        (variant = "local" /\ RejectedByGuard(q)) =>
            /\ q.body = JsonFail(q.msg)
            /\ (q.hdr = NoHeader) =>
                  (q.status = 401 /\ q.msg = "Missing or invalid Authorization header")
            /\ (q.trace[Len(q.trace)] = "admin_guard" /\ NotAdmin(q)) =>
                  (q.status = 403 /\ q.msg = "Admin access required")

\* C13 as the claim has it: whenever the users query answers, the same
\* token is given the same identity, whatever requests (register_user,
\* delete_user) were served between the calls.
C13_SameIdentityEveryCall ==
    \A a, b \in observed :
        a.token = b.token => a.identity = b.identity

\* C13, amended: the same token is given the same identity (subject and
\* role) on every call at which the users query answers and the table holds
\* the same row for the token's subject; the subject attached is the token's
\* on every call, and with no row there is no identity.
C13_SameIdentityWhileRowUnchanged ==
    /\ \A a, b \in observed :
          (a.token = b.token /\ a.row = b.row) => a.identity = b.identity
    /\ \A a \in observed :
          /\ IsSome(a.identity) =>
                UuidToString(a.identity.some.id) = ParseJwt(SubSeq(a.token, 8, 8)).some.sub
          /\ ~IsSome(a.row) => ~IsSome(a.identity)

\* the same token was authenticated on two routes with the same row in the
\* table, and is presented once more after delete_user removed the row
C13_Witness ==
    \E a, b \in observed, r \in ReqIds :
        /\ a.token = b.token /\ a.row = b.row /\ a.route # b.route
        /\ IsSome(a.identity)
        /\ req[r].hdr.val = a.token
        /\ Has(req[r], "fetch_one")
        /\ ~req[r].upstreamErr
        /\ req[r].status = 401

\* the text is "admin" in some casing
IsAdminName(s) ==
    /\ Len(s) = 5
    /\ s[1] \in {"a", "A"} /\ s[2] \in {"d", "D"} /\ s[3] \in {"m", "M"}
    /\ s[4] \in {"i", "I"} /\ s[5] \in {"n", "N"}

\* C14: Role::from is total; it returns Admin exactly for "admin" in any
\* casing and User for every other text: the empty one, unknown names, names
\* that merely contain "admin".
C14_RoleFromTotal ==
    call.out # "none" =>
        /\ call.out \in {"Admin", "User"}
        /\ call.out = "Admin" <=> IsAdminName(call.arg)

C14_Witness ==
    /\ call.out = "User"
    /\ Len(call.arg) > 5
    /\ \E i \in 1..(Len(call.arg) - 4) : IsAdminName(SubSeq(call.arg, i, i + 4))

\* the events of this kind in the request's log
Events(q, kind) == {i \in 1..Len(q.log) : q.log[i].event = kind}

\* C15: for every status the inner service answers, logging_middleware emits
\* one completion event, at info for 200-399, warn for 400-499, error for
\* 500-599 and debug for any other code; 404 is logged at warn, 503 at error.
C15_LevelByStatusBand ==
    \A r \in ReqIds :
        LET q == req[r] IN
        (q.pc = "done" /\ Has(q, "logging_middleware")) =>
            /\ Cardinality(Events(q, "completed")) = 1
            /\ \A i \in Events(q, "completed") :
                  /\ q.log[i].status = q.status
                  /\ q.status \in 200..399 => q.log[i].level = "info"
                  /\ q.status \in 400..499 => q.log[i].level = "warn"
                  /\ q.status \in 500..599 => q.log[i].level = "error"
                  /\ q.status \notin 200..599 => q.log[i].level = "debug"
                  /\ q.status = 404 => q.log[i].level = "warn"
                  /\ q.status = 503 => q.log[i].level = "error"

C15_Witness ==
    \E r \in ReqIds :
        /\ req[r].pc = "done"
        /\ req[r].status = 302
        /\ Len(req[r].log) = 2
        /\ req[r].log[2].level = "info"

\* the names under which a header of the samples must never be logged
SensitiveNames ==
    { AuthorizationName, CookieName,
      <<"x", "-", "a", "p", "i", "-">> \o TokenName,
      <<"p", "r", "o", "x", "y", "-">> \o AuthorizationName }

C17_EntryAndCompletionPaired ==
    \A r \in ReqIds :
        LET q == req[r] IN
        Has(q, "logging_middleware") =>
            /\ q.trace[1] = "logging_middleware"
            /\ Count(q, "logging_middleware") = 1
            /\ Events(q, "started") = {1}
            /\ q.pc # "done" => Len(q.log) = 1
            /\ q.pc = "done" =>
                  /\ Len(q.log) = 2
                  /\ q.log[2].event = "completed"
                  /\ q.log[2].request_id = q.log[1].request_id
                  /\ q.log[2].status = q.status

C17_Witness ==
    \E r \in ReqIds :
        /\ req[r].pc = "done"
        /\ req[r].route \in AdminRoutes
        /\ req[r].status = 403
        /\ req[r].trace[Len(req[r].trace)] = "admin_guard"
        /\ Len(req[r].log) = 2
        /\ req[r].log[1].request_id = 2

\* C18: logging_middleware hands back the response the inner chain produced,
\* status and body as they were, and has invoked the inner chain once.
C18_ResponseUnaltered ==
    [][ \A r \in ReqIds :
          (req[r].pc = "respond" /\ req'[r] # req[r]) =>
              /\ req'[r].pc = "done"
              /\ req'[r].status = req[r].status
              /\ req'[r].msg = req[r].msg
              /\ req'[r].body = req[r].body
              /\ req'[r].trace = req[r].trace
              /\ Count(req[r], "logging_middleware") = 1
              /\ Count(req[r], Stages(req[r])[2]) = 1 ]_vars

C18_Witness ==
    \E r \in ReqIds :
        /\ req[r].pc = "done"
        /\ Has(req[r], "logging_middleware")
        /\ req[r].status = 500
        /\ \E d \in DbErrors :
              req[r].body = JsonFailDetails("Failed to clean up tasks", ErrToString(d))

GuardStages == {"auth_guard", "KeycloakAuthLayer", "admin_guard"}

\* C19: in both variants and on every route, those merged into the final
\* router included, a request enters logging_middleware before any guard or
\* handler; the handler runs only after every guard of its group let the
\* request through, and a public route runs no guard.
C19_WrapperOutermostEverywhere ==
    \A r \in ReqIds :
        LET q == req[r] IN
        Len(q.trace) > 0 =>
            /\ q.trace[1] = "logging_middleware"
            /\ Has(q, "handler") =>
                  \A g \in GuardStages :
                      (\E i \in 1..Len(Stages(q)) : Stages(q)[i] = g) => Has(q, g)
            /\ q.route \in PublicRoutes \cup AuthRoutes =>
                  \A g \in GuardStages : ~Has(q, g)

\* C20: the status of every response delivered is a 2xx, 401, 403, 404 or
\* 500.
C20_StatusesClosed ==
    \A r \in ReqIds :
        LET q == req[r] IN
        Answered(q) => q.status \in (200..299) \cup {401, 403, 404, 500}

\* ---------------------------------------------------------------- C21
\* the response was built for a failure of a collaborator (database,
\* identity provider) and its body carries that collaborator's error text
LeaksCause(q) ==
    /\ IsSome(q.cause)
    /\ q.cause.some.source \in {"sqlx", "reqwest", "keycloak"}
    /\ "json" \in DOMAIN q.body
    /\ "details" \in DOMAIN q.body.json
    /\ q.body.json.details = ErrToString(q.cause.some)

\* C21: when a database or identity-provider interaction fails, the body
\* of the 500 response is generic: it does not contain the collaborator's
\* error text, so it is the same whatever the underlying cause.
C21_FailureBodyIsGeneric ==
    \A r \in ReqIds :
        LET q == req[r] IN
        (Answered(q) /\ q.status = 500) => ~LeaksCause(q)

\* ---------------------------------------------------------------- C22
\* every identity attached to a request in flight is the row of the
\* subject of that request's own token
C22_OwnIdentity ==
    \A r \in DOMAIN req :
        LET q == req[r] IN
        IsSome(q.ext) =>
            /\ Has(q, "insert")
            /\ q.ext.some.id = q.bind
            /\ UuidToString(q.bind) = Presented(q).some.sub

\* a step attaches an identity to a request only in that request's own
\* users query, never changes the identity a request in flight has, and a
\* task created by a step belongs to the identity of the request that stepped
C22_NoCrossTalk ==
    /\ \A r \in DOMAIN req :
          /\ (~IsSome(req[r].ext) /\ IsSome(req'[r].ext)) =>
                 /\ req[r].pc = "fetch"
                 /\ req'[r].ext.some \in users
                 /\ \A o \in DOMAIN req \ {r} : req'[o] = req[o]
          /\ (IsSome(req[r].ext) /\ req'[r].pc # "idle") => req'[r].ext = req[r].ext
    /\ \A t \in tasks' \ tasks :
          \E r \in DOMAIN req :
              /\ req'[r] # req[r]
              /\ Stage(req[r]) = "handler"
              /\ IsSome(req[r].ext)
              /\ t.user_id = req[r].ext.some.id
              /\ UuidToString(t.user_id) = Presented(req[r]).some.sub

\* C22: under any interleaving of concurrent requests the identity read by
\* admin_guard or a handler for a request is the one auth_guard attached
\* for that request; no other request's identity is observed.
C22_IdentityPerRequest == [](C22_OwnIdentity) /\ [][C22_NoCrossTalk]_vars

\* two requests in flight with different identities, one past admin_guard,
\* the other having created its task
C22_Witness ==
    \E a, b \in DOMAIN req :
        /\ a # b
        /\ IsSome(req[a].ext) /\ IsSome(req[b].ext)
        /\ req[a].ext.some.id # req[b].ext.some.id
        /\ Has(req[a], "admin_guard") /\ req[a].pc = "done"
        /\ Has(req[b], "handler") /\ req[b].status = 201
        /\ \E t \in tasks : t.user_id = req[b].ext.some.id

\* ---------------------------------------------------------------- C23
\* the user a task handler works for: user.id of the attached identity
\* (local), token.subject parsed as a uuid (provider)
CallerId(q) ==
    IF variant = "local"
    THEN IF IsSome(q.ext) THEN [some |-> q.ext.some.id] ELSE None
    ELSE SubjectId(q)

\* a task handler answers request r in this step, for caller `a`
HandlerAnswers(r, route, a) ==
    /\ Stage(req[r]) = "handler"
    /\ req[r].route = route
    /\ req'[r] # req[r]
    /\ CallerId(req[r]) = [some |-> a]

\* C23: list_tasks for A returns exactly the tasks whose user_id is A;
\* delete_task by A on a task of B answers 404 (when the DELETE was
\* executed) and leaves the table unchanged; a task leaves the table only
\* by a delete_task of its owner or by the deletion of its owner.
C23_Step ==
    /\ \A r \in DOMAIN req, a \in UuidSpace :
          /\ (HandlerAnswers(r, "list_tasks", a) /\ req'[r].status = 200) =>
                 /\ req'[r].body.json.data = {t \in tasks : t.user_id = a}
                 /\ tasks' = tasks
          /\ ( /\ HandlerAnswers(r, "delete_task", a)
               /\ \E t \in tasks : t.id = req[r].arg /\ t.user_id # a ) =>
                 /\ tasks' = tasks
                 /\ req'[r].status \in {404, 500}
                 /\ ~IsSome(req'[r].cause) => req'[r].status = 404
    /\ \A t \in tasks \ tasks' :
          \E r \in DOMAIN req :
              \/ /\ HandlerAnswers(r, "delete_task", t.user_id)
                 /\ req[r].arg = t.id
                 /\ req'[r].status = 204
              \/ /\ Stage(req[r]) = "handler"
                 /\ req[r].route = "delete_user"
                 /\ req'[r] # req[r]
                 /\ req[r].arg = t.user_id

C23_TaskOwnershipIsolation == [][C23_Step]_vars

\* A asked to delete a task B owns and was answered 404, while A has a
\* task of its own and B's task is still there
C23_Witness ==
    \E r \in DOMAIN req, a \in UuidSpace :
        LET q == req[r] IN
        /\ q.route = "delete_task" /\ q.status = 404 /\ Has(q, "handler")
        /\ CallerId(q) = [some |-> a]
        /\ \E t \in tasks : t.id = q.arg /\ t.user_id # a
        /\ \E t \in tasks : t.user_id = a

\* ---------------------------------------------------------------- C24
\* the users whose row delete_user has removed: ids the database once
\* generated that no row has any more
DeletedUsers == minted \ {u.id : u \in users}

\* a row leaves the users table only in a delete_user answered 200
C24_DeletedBySuccess ==
    \A u \in users \ users' :
        \E r \in DOMAIN req :
            /\ Stage(req[r]) = "handler" /\ req[r].route = "delete_user"
            /\ req[r].arg = u.id
            /\ req'[r].status = 200

\* the users query of a request whose verified token names a deleted user
\* ends the request with 401 and attaches nothing
C24_FetchRejects ==
    \A r \in DOMAIN req :
        ( /\ variant = "local"
          /\ req[r].pc = "fetch"
          /\ req'[r] # req[r]
          /\ req[r].bind \in DeletedUsers ) =>
            /\ req'[r].pc = "done"
            /\ req'[r].status = 401
            /\ ~IsSome(req'[r].ext)
            /\ ~Has(req'[r], "handler")

\* a request past auth_guard's users query carries an identity, or was
\* rejected 401 there and reached nothing further
C24_RejectedStays ==
    \A r \in DOMAIN req :
        LET q == req[r] IN
        (variant = "local" /\ Has(q, "fetch_one") /\ ~Has(q, "insert")) =>
            /\ q.pc = "done"
            /\ q.status = 401
            /\ ~Has(q, "handler")
            /\ ~Has(q, "admin_guard")

\* C24: once delete_user(id) has succeeded, every later request through
\* auth_guard with an unexpired, correctly signed token whose subject is id
\* is rejected 401 by auth_guard and reaches no handler: the identity is
\* resolved from the users table on every request.
C24_RevokedByDeletion ==
    [](C24_RejectedStays) /\ [][C24_DeletedBySuccess /\ C24_FetchRejects]_vars

\* after the deletion of a user a request with that user's valid token was
\* rejected "User not found" though the database answered
C24_Witness ==
    \E r \in DOMAIN req :
        LET q == req[r] IN
        /\ variant = "local"
        /\ ValidLocalToken(q)
        /\ Has(q, "fetch_one") /\ ~q.upstreamErr
        /\ q.bind \in DeletedUsers
        /\ UuidToString(q.bind) = Presented(q).some.sub
        /\ q.status = 401 /\ q.msg = "User not found" /\ q.pc = "done"

\* ---------------------------------------------------------------- C25
Admins == {u \in users : u.role = "admin"}

\* the request presents a token login_user handed out for an account that
\* was made through register_user
PresentsRegisteredToken(q) ==
    \E o \in observed :
        /\ "issued" \in DOMAIN o
        /\ q.hdr = TextHeader(BearerPrefix \o <<o.issued>>)
        /\ [registered |-> o.account] \in observed

\* a step of register_user or login_user leaves the administrators as they
\* were; the row register_user adds has role "user" and is not verified,
\* whatever the body asked for; login_user adds and removes nothing
C25_Step ==
    \A r \in DOMAIN req :
        ( /\ Stage(req[r]) = "handler"
          /\ req[r].route \in {"register_user", "login_user"}
          /\ req'[r] # req[r] ) =>
            /\ Admins' = Admins
            /\ users \subseteq users'
            /\ \A u \in users' \ users :
                  /\ req[r].route = "register_user"
                  /\ req'[r].status = 201
                  /\ u.role = "user"
                  /\ u.verified = FALSE

\* a request with a token obtained by registering and logging in does not
\* get past admin_guard
C25_RegisteredNeverAdmin ==
    \A r \in DOMAIN req :
        LET q == req[r] IN
        (PresentsRegisteredToken(q) /\ Has(q, "admin_guard")) =>
            /\ q.pc = "done"
            /\ q.status = 403
            /\ ~Has(q, "handler")

\* C25: register_user stores role 'user' and verified = false whatever the
\* payload; register_user and login_user leave the set of administrators
\* unchanged, and no token obtained through them passes admin_guard.
C25_NoEscalation == [](C25_RegisteredNeverAdmin) /\ [][C25_Step]_vars

\* an account was registered, logged in, and its token was refused by
\* admin_guard while an administrator exists
C25_Witness ==
    \E r \in DOMAIN req :
        LET q == req[r] IN
        /\ PresentsRegisteredToken(q)
        /\ Has(q, "admin_guard")
        /\ q.status = 403
        /\ Admins # {}

\* ---------------------------------------------------------------- C26
\* the place of an event in a request's trace, 0 when it is not there
PlaceOf(q, name) ==
    IF Has(q, name) THEN CHOOSE i \in 1..Len(q.trace) : q.trace[i] = name ELSE 0

\* the provider variant's delete_user has answered this request
DeleteUserAnswered(q) ==
    /\ variant = "provider"
    /\ q.route = "delete_user"
    /\ Has(q, "handler")
    /\ Answered(q)

\* the statement on the tasks table comes after the provider's confirmation;
\* each failure before it has its status; 200 means both were done
C26_Order ==
    \A r \in DOMAIN req :
        LET q == req[r] IN
        DeleteUserAnswered(q) =>
            /\ Has(q, TasksCleanup) =>
                  /\ Has(q, ProviderDeleted)
                  /\ PlaceOf(q, ProviderDeleted) < PlaceOf(q, TasksCleanup)
            /\ Has(q, TokenFailed) => q.status = 500
            /\ Has(q, ProviderNotFound) => q.status = 404
            /\ (Has(q, ProviderError) \/ Has(q, ProviderUnreachable)) => q.status = 500
            /\ q.status = 200 =>
                  /\ Has(q, ProviderDeleted) /\ Has(q, TasksCleanup)
                  /\ q.arg \notin kcUsers
                  /\ \A t \in tasks : t.user_id # q.arg

\* a delete_user step that did not get the provider's confirmation leaves
\* the tasks table and the provider's users as they were; no step of it
\* removes a task of another user
C26_Frame ==
    \A r \in DOMAIN req :
        ( /\ variant = "provider"
          /\ Stage(req[r]) = "handler"
          /\ req[r].route = "delete_user"
          /\ req'[r] # req[r] ) =>
            /\ ~Has(req'[r], ProviderDeleted) => (tasks' = tasks /\ kcUsers' = kcUsers)
            /\ req'[r].status # 200 => tasks' = tasks
            /\ \A t \in tasks \ tasks' : t.user_id = req[r].arg

\* C26: the provider variant's delete_user deletes the user's tasks only
\* after the identity provider confirmed the deletion of the user; a failing
\* admin token (500), a 404 of the provider (404) or another non-success
\* status (500) leave the tasks table unchanged; a success response means
\* the provider deletion and the task cleanup were both done.
C26_CleanupAfterProvider == [](C26_Order) /\ [][C26_Frame]_vars

\* delete_user answered 200 for a user who had tasks, while another user's
\* tasks are still there
C26_Witness ==
    \E r \in DOMAIN req :
        LET q == req[r] IN
        /\ DeleteUserAnswered(q)
        /\ q.status = 200
        /\ Has(q, TasksCleanup)
        /\ tasks # {}

====
